---- MODULE Spec2Model ----
(***************************************************************************)
(* A model of the FastAPI application of app/main.py: the process-wide     *)
(* data_store, the files of temp/outputs, the uuid4 generator, and the     *)
(* request handlers upload_file, analyze_data, create_visualization,       *)
(* generate_report and auto_analyze_data.                                  *)
(*                                                                         *)
(* The handlers are coroutines on one event loop: the code between two     *)
(* awaits runs without interleaving.  upload_file awaits file.read(),      *)
(* analyze_data and auto_analyze_data await client.post(); a task is a     *)
(* handler suspended at such an await, or (auto_analyze_data) stepping     *)
(* through its slot loop while every other task is held.                   *)
(***************************************************************************)
EXTENDS Integers, Sequences, FiniteSets, TLC

\* Bounds of the model.
MaxIds == 4      \* number of uuid4() calls explored
MaxUploads == 2  \* datasets stored or being uploaded
MaxTasks == 2    \* handlers suspended or running at the same time
MaxSlots == 2    \* length of the "visualizations" list of a model reply
StoreIds == 3    \* number of uuid4() calls explored by SpecStore
MaxFigs == 2     \* figures one piece of generated code leaves open
MaxOpen == 3     \* open figures explored

(***************************************************************************)
(* File names and file contents.                                           *)
(* A file name is the sequence of its pieces, "DOT" standing for ".":      *)
(* <<"data","DOT","CSV">> is data.CSV and <<"data","csv">> is datacsv.     *)
(***************************************************************************)
FileNames ==
    { << >>,                                  \* no file name
      <<"data", "DOT", "CSV">>,               \* data.CSV
      <<"r", "DOT", "v1", "DOT", "xls">>,     \* r.v1.xls
      <<"data", "DOT", "csv", "DOT", "txt">>, \* data.csv.txt
      <<"data", "csv">> }                     \* datacsv

\* str.lower() on one piece
Lower(p) ==
    CASE p = "CSV" -> "csv"
      [] p = "XLSX" -> "xlsx"
      [] p = "XLS" -> "xls"
      [] p = "TXT" -> "txt"
      [] OTHER -> p

Max(S) == CHOOSE x \in S : \A y \in S : y <= x

\* filename.split(".")[-1]: the pieces after the last dot
SplitLast(fn) ==
    LET dots == {i \in 1..Len(fn) : fn[i] = "DOT"}
        from == IF dots = {} THEN 1 ELSE Max(dots) + 1
    IN SubSeq(fn, from, Len(fn))

\* a plausible slip: the piece after the first dot, split(".")[1]
FirstExtension(fn) ==
    LET dots == {i \in 1..Len(fn) : fn[i] = "DOT"}
        rest == IF dots = {} THEN fn
                ELSE SubSeq(fn, (CHOOSE i \in dots : \A j \in dots : i <= j) + 1, Len(fn))
        stop == {i \in 1..Len(rest) : rest[i] = "DOT"}
        upto == IF stop = {} THEN Len(rest)
                ELSE (CHOOSE i \in stop : \A j \in stop : i <= j) - 1
    IN [i \in 1..upto |-> Lower(rest[i])]

\* file.filename.split(".")[-1].lower()
file_extension(fn) ==
    LET ext == SplitLast(fn) IN [i \in 1..Len(ext) |-> Lower(ext[i])]

SupportedExtensions == { <<"csv">>, <<"xlsx">>, <<"xls">> }

(***************************************************************************)
(* What an uploaded file holds: its header row, which columns hold numbers *)
(* and whether pandas can parse it at all.                                 *)
(***************************************************************************)
Contents ==
    { [header |-> <<"city">>, numeric |-> <<FALSE>>, ok |-> TRUE],
      [header |-> <<"a", "a">>, numeric |-> <<TRUE, FALSE>>, ok |-> TRUE],
      [header |-> <<"b", "a">>, numeric |-> <<TRUE, TRUE>>, ok |-> TRUE],
      [header |-> << >>, numeric |-> << >>, ok |-> FALSE] }

NoContent == [header |-> << >>, numeric |-> << >>, ok |-> FALSE]

\* the uploads explored: data.CSV holding the first or the third table,
\* r.v1.xls holding the second or nothing readable, and the other names
Uploads ==
    { u \in [filename : FileNames, content : Contents] :
        IF u.filename = <<"data", "DOT", "CSV">>
        THEN u.content.ok /\ u.content.header # <<"a", "a">>
        ELSE IF u.filename = <<"r", "DOT", "v1", "DOT", "xls">>
        THEN u.content.header \in {<<"a", "a">>, << >>}
        ELSE ~u.content.ok }

\* pd.read_csv / pd.read_excel: one column per header cell, in order; a
\* repeated header cell h becomes h.1, h.2 ... (a label is <<h, k>>, k = 0
\* for the first occurrence).
read_table(content) ==
    [i \in 1..Len(content.header) |->
        [name |-> << content.header[i],
                     Cardinality({j \in 1..(i - 1) : content.header[j] = content.header[i]}) >>,
         numeric |-> content.numeric[i]]]

\* df.columns.tolist()
columns_of(df) == [i \in 1..Len(df) |-> df[i].name]

ColumnSet(df) == {df[i].name : i \in 1..Len(df)}

\* df.select_dtypes(include=['number']).shape[1]
NumNumeric(df) == Cardinality({i \in 1..Len(df) : df[i].numeric})

(***************************************************************************)
(* Requests to create_visualization and generate_report.                   *)
(***************************************************************************)
NoColumn == <<"", 0>>     \* a form field left out (None) or sent empty

NoRequest == [viz_type |-> "", x |-> NoColumn, y |-> NoColumn, color |-> NoColumn]

VizRequest(viz_type, x, y, color) == [viz_type |-> viz_type, x |-> x, y |-> y, color |-> color]

\* the chart requests explored: labels a, a.1 and b exist in some dataset,
\* zz in none
VizRequests ==
    { VizRequest("bar", <<"a", 0>>, NoColumn, NoColumn),
      VizRequest("box", <<"a", 0>>, <<"b", 0>>, <<"a", 1>>),
      VizRequest("histogram", <<"zz", 0>>, NoColumn, NoColumn),
      VizRequest("line", <<"a", 0>>, NoColumn, NoColumn),
      VizRequest("line", <<"zz", 0>>, <<"zz", 0>>, <<"a", 1>>),
      VizRequest("scatter", <<"a", 0>>, <<"b", 0>>, NoColumn),
      VizRequest("scatter", <<"a", 0>>, NoColumn, <<"a", 1>>),
      VizRequest("scatter", <<"a", 0>>, <<"zz", 0>>, <<"a", 1>>),
      VizRequest("pie", <<"a", 0>>, NoColumn, NoColumn) }

(***************************************************************************)
(* The completion service's answers to client.post().                      *)
(***************************************************************************)
\* what json.loads(content) gives analyze_data: the kind of value, what the
\* "visualization_code" holds ("none": absent or empty; "plt": text holding
\* "plt"; "px": text holding "px" and not "plt"; "other": neither), whether
\* the executed code leaves a "fig" in its namespace, and where the code
\* raises ("exec": while executed, "save": while its figure is saved), and
\* whether the code assigns to a column of df (mutates): df is the stored
\* DataFrame itself, not a copy; figs: the matplotlib figures the code has
\* opened and not closed when it ends or raises.
NoReply ==
    [shape |-> "", code |-> "none", fig |-> FALSE, raises |-> "no", mutates |-> FALSE,
     figs |-> 0]

\* the replies whose code leaves a number of figures of the set figs open
AnalyzeRepliesWith(figs) ==
    { a \in [shape : {"object", "array"}, code : {"none", "plt", "px", "other"},
             fig : BOOLEAN, raises : {"no", "exec", "save"}, mutates : BOOLEAN,
             figs : figs] :
        /\ a.figs > 0 => (a.code \in {"plt", "other"} /\ ~a.mutates)
        /\ a.shape = "array" => (a.code = "none" /\ ~a.fig /\ a.raises = "no")
        /\ a.code \in {"none", "px", "other"} => a.raises = "no"
        /\ a.fig => a.code = "px"
        /\ a.mutates => (a.code = "plt" /\ a.raises \in {"no", "save"}) }

AnalyzeReplies == AnalyzeRepliesWith(0..MaxFigs)

\* A network failure, a non-2xx answer with its body, or a 200 answer whose
\* body is not JSON ("notjson"), lacks choices[0].message.content
\* ("nochoices"), holds content that is not JSON ("badcontent"), or parses
\* ("json").
Failures ==
    [kind : {"neterr"}, status : {0}, body : {""}]
    \cup [kind : {"http"}, status : {429, 500}, body : {"rate limited", "overloaded"}]
    \cup [kind : {"http"}, status : {200}, body : {"notjson", "nochoices", "badcontent"}]

Parsed == [kind |-> "http", status |-> 200, body |-> "json"]

NoUpstream == [kind |-> "", status |-> 0, body |-> ""]

\* response.raise_for_status() raises httpx.HTTPStatusError
RaisesForStatus(up) == up.kind = "http" /\ ~(up.status \in 200..299)

\* response.json() / result["choices"][0]["message"]["content"] / json.loads
ParseRaises(up) == up.kind = "neterr" \/ up.body # "json"

(***************************************************************************)
(* The slots of auto_analyze_data's "visualizations" list.                 *)
(* item: FALSE for an item on which the lookup of "code" raises (a number, *)
(* null, or "code" that is no string); code, fig as above ("px" also       *)
(* stands for text holding "go.");                                         *)
(* raises: "no", "exec" or "save" (savefig, write_image or the fallback    *)
(* chart raising); errsave: the error image cannot be saved either;        *)
(* mutates: the code assigns to a column of df, the stored DataFrame;      *)
(* short: the code is not empty and has fewer than 10 characters after     *)
(* strip(); figs: the matplotlib figures the code has opened and not       *)
(* closed when it ends or raises.                                          *)
(***************************************************************************)
SlotsWith(figs) ==
    { s \in [item : BOOLEAN, code : {"none", "plt", "px", "other"}, fig : BOOLEAN,
             raises : {"no", "exec", "save"}, errsave : BOOLEAN, mutates : BOOLEAN,
             short : BOOLEAN, figs : figs] :
        /\ s.figs > 0 => (s.code \in {"plt", "other"} /\ ~s.mutates /\ ~s.short /\ ~s.errsave)
        /\ s.mutates => (s.code = "plt" /\ s.raises = "no")
        /\ s.short => (s.code \in {"plt", "other"} /\ s.raises = "no" /\ ~s.fig /\ ~s.mutates)
        /\ ~s.item => (s.code = "none" /\ ~s.fig /\ s.raises = "no" /\ ~s.errsave)
        /\ s.fig => (s.code \in {"px", "other"} /\ s.raises = "no")
        /\ s.code \in {"px", "none"} => s.raises = "no"
        /\ s.code = "other" => s.raises # "exec"
        /\ s.errsave => (s.code = "plt" /\ s.raises = "exec") }

Slots == SlotsWith(0..MaxFigs)

NoSlot ==
    [item |-> TRUE, code |-> "none", fig |-> FALSE, raises |-> "no", errsave |-> FALSE,
     mutates |-> FALSE, short |-> FALSE, figs |-> 0]

\* what json.loads(content) gives auto_analyze_data: the kind of value
\* ("object"; "array": a list or a string; "number": a number, true or null),
\* n: the length of its "visualizations" list (-1: no such key, or no list),
\* prep: its "preprocessed_data_info" ("absent", or "bad": sub-keys missing),
\* sec: what it holds under the keys of the dashboard's sections ("absent":
\* none of the keys; "str": text; "dict": an object or a list; "null").
NoAutoReply == [shape |-> "", n |-> -1, prep |-> "absent", sec |-> "absent"]

AutoReplies ==
    { a \in [shape : {"object", "array", "number"}, n : -1..MaxSlots, prep : {"absent", "bad"},
             sec : {"absent", "str", "dict", "null"}] :
        /\ a.shape # "object" => (a.n = -1 /\ a.prep = "absent" /\ a.sec = "absent")
        /\ a.prep = "bad" => (a.n = -1 /\ a.sec = "str")
        /\ (a.shape = "object" /\ a.n >= 0) => a.sec = "str" }

\* the keys of the reply the dashboard shows, and those the response returns
SectionKeys ==
    {"data_quality", "statistics", "correlations", "patterns", "preprocessing", "insights"}

ReturnedKeys == {"data_quality", "statistics", "correlations", "patterns", "insights"}

\* the second argument of ai_analysis.get(key, ...) in the template
Placeholder(k) ==
    CASE k = "data_quality" -> "No data quality assessment available"
      [] k = "statistics" -> "No statistics available"
      [] k = "correlations" -> "No correlation analysis available"
      [] k = "patterns" -> "No patterns identified"
      [] k = "preprocessing" -> "No preprocessing recommendations available"
      [] k = "insights" -> "No insights available"

\* ai_analysis[k] of a reply of kind sec: a value with its type
Value(sec, k) == [type |-> sec, text |-> (IF sec = "str" THEN k ELSE "")]

\* a plausible slip: the lookup has no default
GetNoDefault(v, default) == v

\* dict.get(key, default), v the value under the key
Get(v, default) == IF v.type = "absent" THEN [type |-> "str", text |-> default] ELSE v

\* format_content: text as it is, an object or a list through json.dumps,
\* anything else through str()
format_content(c) ==
    CASE c.type = "str" -> [as |-> "text", text |-> c.text]
      [] c.type = "dict" -> [as |-> "json", text |-> c.text]
      [] OTHER -> [as |-> "str()", text |-> "None"]

\* the sections of the dashboard and the "analysis" of the response
Rendered(sec) == [k \in SectionKeys |-> format_content(Get(Value(sec, k), Placeholder(k)))]

Returned(sec) == [k \in ReturnedKeys |-> Get(Value(sec, k), "")]

(***************************************************************************)
(* State.                                                                  *)
(***************************************************************************)
VARIABLES
    data_store,   \* file_id -> [filename, columns, df, dashboard]
    outputs,      \* the files of temp/outputs: <<id, extension>>
    uuid_calls,   \* how many times uuid.uuid4() was called
    tasks,        \* the handlers that are suspended at an await or running
    resp,         \* the last HTTP response sent
    figures       \* pyplot's open figures that generated code opened

vars == <<data_store, outputs, uuid_calls, tasks, resp, figures>>

Tasks == 1..MaxTasks

IdleTask ==
    [pc |-> "idle", op |-> "none", fid |-> 0, filename |-> << >>, content |-> NoContent,
     df |-> << >>, sent |-> 0, shape |-> "", prep |-> "", sec |-> "", n |-> 0, i |-> 0,
     paths |-> << >>, last |-> NoSlot, failed |-> FALSE]

NoResp ==
    [op |-> "none", fid |-> 0, status |-> 0, detail |-> "", column |-> NoColumn,
     body |-> "", file_id |-> 0, filename |-> << >>, header |-> << >>, columns |-> << >>,
     request |-> NoRequest, visualization |-> 0, report |-> 0, embedded |-> << >>,
     dashboard_url |-> 0, visualizations |-> << >>, sent |-> 0, failed |-> FALSE,
     up |-> NoUpstream, shape |-> "", n |-> -1, dflt |-> "", written |-> "",
     tiles |-> << >>, prep |-> "", sec |-> "", rendered |-> << >>, analysis |-> << >>,
     vpaths |-> << >>, notes |-> << >>]

\* a response of handler op to a request naming fid
Http(op, fid, status, detail) ==
    [NoResp EXCEPT !.op = op, !.fid = fid, !.status = status, !.detail = detail]

\* a plausible slip: the lookup failure surfaces as a server error
NotFoundAs500(op, fid) == Http(op, fid, 500, "File not found")

\* raise HTTPException(status_code=404, detail="File not found")
NotFound(op, fid) == Http(op, fid, 404, "File not found")

\* a plausible slip: an identifier derived from the size of the store
uuid4Reused == Cardinality(DOMAIN data_store) + 1

\* uuid.uuid4(): a value no earlier call returned
uuid4 == uuid_calls + 1

\* no handler is between two awaits: the event loop may start or resume one
Quiet == \A t \in Tasks : tasks[t].pc # "slots"

\* the uploads accepted so far that have not failed
Uploading == Cardinality(DOMAIN data_store) + Cardinality({t \in Tasks : tasks[t].pc = "reading"})

\* The file_ids requests name: the stored ones, the one of an upload that
\* is still being read, and one that was never issued.
FileIds ==
    (DOMAIN data_store) \cup {tasks[t].fid : t \in {u \in Tasks : tasks[u].pc = "reading"}}
                        \cup {uuid_calls + 1}

\* a new handler takes the first free place
Free(t) == tasks[t].pc = "idle" /\ \A u \in 1..(t - 1) : tasks[u].pc # "idle"

Init ==
    /\ data_store = << >>
    /\ outputs = {}
    /\ uuid_calls = 0
    /\ tasks = [t \in Tasks |-> IdleTask]
    /\ resp = NoResp
    /\ figures = 0

\* exec(code, {"df": df, ...}) of code that assigns df["z"] = <numbers>:
\* the stored table gets the column, once
Mutated(df) ==
    IF \E i \in 1..Len(df) : df[i].name = <<"z", 0>> THEN df
    ELSE Append(df, [name |-> <<"z", 0>>, numeric |-> TRUE])

\* a plausible slip: the store is rebound to a dict of the one new entry
PutAlone(d, k, v) == [x \in {k} |-> v]

\* dict assignment d[k] = v
Put(d, k, v) == [x \in (DOMAIN d) \cup {k} |-> IF x = k THEN v ELSE d[x]]

(***************************************************************************)
(* POST /api/upload                                                        *)
(***************************************************************************)
\* upload_file up to "content = await file.read()"
upload_file(t, fn, content) ==
    /\ Quiet
    /\ UNCHANGED figures
    /\ Free(t)
    /\ IF fn = << >>
       THEN /\ resp' = [Http("upload", 0, 400, "No file provided") EXCEPT !.filename = fn]
            /\ UNCHANGED <<data_store, outputs, uuid_calls, tasks>>
       ELSE IF file_extension(fn) \notin SupportedExtensions
       THEN /\ resp' = [Http("upload", 0, 400, "Only CSV and Excel files are supported")
                          EXCEPT !.filename = fn]
            /\ UNCHANGED <<data_store, outputs, uuid_calls, tasks>>
       ELSE /\ uuid_calls < MaxIds
            /\ Uploading < MaxUploads
            /\ uuid_calls' = uuid_calls + 1
            /\ tasks' = [tasks EXCEPT ![t] =
                           [IdleTask EXCEPT !.pc = "reading", !.op = "upload", !.fid = uuid4,
                                            !.filename = fn, !.content = content]]
            /\ resp' = NoResp
            /\ UNCHANGED <<data_store, outputs>>

\* upload_file from the await on: the file is parsed and stored
upload_file_resume(t) ==
    /\ Quiet
    /\ UNCHANGED figures
    /\ tasks[t].pc = "reading"
    /\ LET me == tasks[t]
           df == read_table(me.content)
       IN IF ~me.content.ok
          THEN /\ resp' = [Http("upload", 0, 500, "Error processing file")
                             EXCEPT !.filename = me.filename]
               /\ UNCHANGED data_store
          ELSE /\ data_store' = Put(data_store, me.fid,
                                    [filename |-> me.filename, columns |-> columns_of(df),
                                     df |-> df, dashboard |-> 0])
               /\ resp' = [Http("upload", 0, 200, "") EXCEPT
                             !.file_id = me.fid, !.filename = me.filename,
                             !.header = me.content.header, !.columns = columns_of(df)]
    /\ tasks' = [tasks EXCEPT ![t] = IdleTask]
    /\ UNCHANGED <<outputs, uuid_calls>>

(***************************************************************************)
(* POST /api/analyze                                                       *)
(***************************************************************************)
\* a plausible slip: the request is sent again after a first attempt
PostWithRetry(sent) == sent + 2

\* one more request leaves for the completion service: client.post(...)
Post(sent) == sent + 1

\* analyze_data up to "await client.post(...)"
analyze_data(t, fid) ==
    /\ Quiet
    /\ UNCHANGED figures
    /\ Free(t)
    /\ IF fid \notin DOMAIN data_store
       THEN /\ resp' = NotFound("analyze", fid)
            /\ UNCHANGED tasks
       ELSE /\ tasks' = [tasks EXCEPT ![t] =
                           [IdleTask EXCEPT !.pc = "awaiting", !.op = "analyze", !.fid = fid,
                                            !.df = data_store[fid].df, !.sent = Post(0)]]
            /\ resp' = NoResp
    /\ UNCHANGED <<data_store, outputs, uuid_calls>>

\* a plausible slip: every upstream failure is reported as a bad gateway
UpstreamErrorAs502(op, me, up) ==
    [Http(op, me.fid, 502, "Error from OpenRouter API") EXCEPT
        !.body = up.body, !.sent = me.sent, !.up = up]

\* except httpx.HTTPStatusError: the upstream status and body are passed on
UpstreamError(op, me, up) ==
    [Http(op, me.fid, up.status, "Error from OpenRouter API") EXCEPT
        !.body = up.body, !.sent = me.sent, !.up = up]

\* except Exception: the generic failure
AnalysisFailed(op, me, up) ==
    [Http(op, me.fid, 500, "Error analyzing data") EXCEPT !.sent = me.sent, !.up = up]

\* The visualization of analyze_data's reply a: whether uuid4 is called, the
\* path returned and whether the image file is written.  The path is
\* assigned before savefig / write_image is called.
AnalyzeVisualization(a) ==
    IF a.code = "none" \/ a.raises = "exec"
    THEN [calls |-> 0, path |-> 0, written |-> FALSE]
    ELSE IF a.code = "plt" \/ (a.code = "px" /\ a.fig)
    THEN [calls |-> 1, path |-> uuid4, written |-> a.raises # "save"]
    ELSE [calls |-> 0, path |-> 0, written |-> FALSE]

\* plt.close(): the current figure is closed
CloseCurrent(n) == IF n > 0 THEN n - 1 ELSE 0

\* The figures open after analyze_data's visualization block, f being open
\* before: the code's own stay when it raises, when savefig raises and when
\* the code does not hold "plt"; after savefig the current figure is closed,
\* and only that one.  Code that opened none has savefig and close act on
\* the current figure, a figure left by earlier code or one the handlers
\* made.
AnalyzeFigures(f, a) ==
    IF a.code = "none" THEN {f}
    ELSE IF a.code = "plt" /\ a.raises = "no"
    THEN (IF a.figs > 0 THEN {CloseCurrent(f + a.figs)} ELSE {f, CloseCurrent(f)})
    ELSE {f + a.figs}

\* analyze_data from the await on
analyze_data_resume(t, up, a) ==
    /\ Quiet
    /\ tasks[t].pc = "awaiting"
    /\ tasks[t].op = "analyze"
    /\ figures' \in (IF ~RaisesForStatus(up) /\ ~ParseRaises(up) /\ a.shape = "object"
                     THEN AnalyzeFigures(figures, a) ELSE {figures})
    /\ figures' <= MaxOpen
    /\ LET me == tasks[t]
           v == AnalyzeVisualization(a)
       IN IF RaisesForStatus(up)
          THEN /\ resp' = UpstreamError("analyze", me, up)
               /\ UNCHANGED <<outputs, uuid_calls>>
          ELSE IF ParseRaises(up) \/ a.shape # "object"
          THEN /\ resp' = [AnalysisFailed("analyze", me, up) EXCEPT !.shape = a.shape]
               /\ UNCHANGED <<outputs, uuid_calls>>
          ELSE /\ uuid_calls + v.calls <= MaxIds
               /\ uuid_calls' = uuid_calls + v.calls
               /\ outputs' = IF v.written THEN outputs \cup {<<v.path, "png">>} ELSE outputs
               /\ resp' = [Http("analyze", me.fid, 200, "") EXCEPT
                             !.visualization = v.path, !.sent = me.sent, !.up = up,
                             !.shape = a.shape, !.failed = (a.raises # "no")]
    /\ tasks' = [tasks EXCEPT ![t] = IdleTask]
    /\ data_store' = IF ~RaisesForStatus(up) /\ ~ParseRaises(up) /\ a.shape = "object" /\ a.mutates
                     THEN [data_store EXCEPT ![tasks[t].fid].df = Mutated(@)]
                     ELSE data_store

(***************************************************************************)
(* POST /api/visualize                                                     *)
(***************************************************************************)
\* The body of create_visualization's try block: the HTTPException it
\* raises (its status, 0 for none), or another exception (renders = FALSE:
\* plotly or write_image raising).
ChartRaises(viz_type, y, renders) ==
    IF viz_type \in {"line", "scatter"} /\ y = NoColumn THEN 400
    ELSE IF viz_type \notin {"bar", "line", "scatter", "histogram", "box"} THEN 400
    ELSE IF ~renders THEN 1
    ELSE 0

\* "except Exception as e: raise HTTPException(status_code=500, ...)": the
\* HTTPException raised in the try block is an Exception and is caught too
ExceptException(raised) == IF raised # 0 THEN 500 ELSE 200

\* a plausible slip: color_by is looked up before y_column
CreateVisualizationColorFirst(fid, req, renders) ==
    /\ Quiet
    /\ UNCHANGED figures
    /\ LET cols == ColumnSet(data_store[fid].df)
           missing(c) == [Http("visualize", fid, 400, "Column not found in data") EXCEPT
                            !.column = c, !.request = req]
       IN IF fid \notin DOMAIN data_store
          THEN /\ resp' = NotFound("visualize", fid)
               /\ UNCHANGED <<outputs, uuid_calls>>
          ELSE IF req.x \notin cols
          THEN resp' = missing(req.x) /\ UNCHANGED <<outputs, uuid_calls>>
          ELSE IF req.color # NoColumn /\ req.color \notin cols
          THEN resp' = missing(req.color) /\ UNCHANGED <<outputs, uuid_calls>>
          ELSE IF req.y # NoColumn /\ req.y \notin cols
          THEN resp' = missing(req.y) /\ UNCHANGED <<outputs, uuid_calls>>
          ELSE /\ uuid_calls < MaxIds
               /\ uuid_calls' = uuid_calls + 1
               /\ LET status == ExceptException(ChartRaises(req.viz_type, req.y, renders))
                  IN IF status = 200
                     THEN /\ outputs' = outputs \cup {<<uuid4, "png">>}
                          /\ resp' = [Http("visualize", fid, 200, "") EXCEPT
                                        !.visualization = uuid4, !.request = req]
                     ELSE /\ outputs' = outputs
                          /\ resp' = [Http("visualize", fid, status, "Error creating visualization")
                                        EXCEPT !.request = req]
    /\ UNCHANGED <<data_store, tasks>>

create_visualization(fid, req, renders) ==
    /\ Quiet
    /\ UNCHANGED figures
    /\ LET viz_type == req.viz_type
           x == req.x
           y == req.y
           color == req.color
           cols == ColumnSet(data_store[fid].df)
           missing(c) == [Http("visualize", fid, 400, "Column not found in data") EXCEPT
                            !.column = c, !.request = req]
       IN IF fid \notin DOMAIN data_store
          THEN /\ resp' = NotFound("visualize", fid)
               /\ UNCHANGED <<outputs, uuid_calls>>
          ELSE IF x \notin cols
          THEN resp' = missing(x) /\ UNCHANGED <<outputs, uuid_calls>>
          ELSE IF y # NoColumn /\ y \notin cols
          THEN resp' = missing(y) /\ UNCHANGED <<outputs, uuid_calls>>
          ELSE IF color # NoColumn /\ color \notin cols
          THEN resp' = missing(color) /\ UNCHANGED <<outputs, uuid_calls>>
          ELSE /\ uuid_calls < MaxIds
               /\ uuid_calls' = uuid_calls + 1
               /\ LET status == ExceptException(ChartRaises(viz_type, y, renders))
                  IN IF status = 200
                     THEN /\ outputs' = outputs \cup {<<uuid4, "png">>}
                          /\ resp' = [Http("visualize", fid, 200, "") EXCEPT
                                        !.visualization = uuid4, !.request = req]
                     ELSE /\ outputs' = outputs
                          /\ resp' = [Http("visualize", fid, status, "Error creating visualization")
                                        EXCEPT !.request = req]
    /\ UNCHANGED <<data_store, tasks>>

(***************************************************************************)
(* POST /api/generate-report                                               *)
(***************************************************************************)
\* the paths a report request may name: the files of temp/outputs and one
\* file that does not exist
ReportPaths == outputs \cup {<<0, "png">>}

\* the lists explored: none, one path, and an image after another path
ReportPathLists ==
    {<< >>} \cup {<<p>> : p \in ReportPaths}
            \cup {pq \in ReportPaths \X ReportPaths :
                    pq[1] # pq[2] /\ pq[2] \in outputs /\ pq[2][2] = "png"}

\* the loop over visualization_paths: the paths embedded in the PDF (a
\* missing file is skipped, a file FPDF cannot read as an image raises and
\* leaves a note); pdf_ok = FALSE: pdf.output(...) raises
\* a plausible slip: one try around the whole loop, so that the first image
\* FPDF cannot read ends the loop
EmbeddedUntilFailure(vpaths) ==
    LET fails(k) == vpaths[k] \in outputs /\ vpaths[k][2] # "png"
        upto == IF \E k \in 1..Len(vpaths) : fails(k)
                THEN (CHOOSE k \in 1..Len(vpaths) : fails(k) /\ \A j \in 1..(k - 1) : ~fails(j)) - 1
                ELSE Len(vpaths)
    IN SelectSeq(SubSeq(vpaths, 1, upto), LAMBDA p : p \in outputs /\ p[2] = "png")

Embedded(vpaths) == SelectSeq(vpaths, LAMBDA p : p \in outputs /\ p[2] = "png")

\* the paths for which the loop wrote "Error adding visualization: ..."
\* into the PDF: the file exists and pdf.image raised
Notes(vpaths) == SelectSeq(vpaths, LAMBDA p : p \in outputs /\ p[2] # "png")

generate_report(fid, vpaths, pdf_ok) ==
    /\ Quiet
    /\ UNCHANGED figures
    /\ IF fid \notin DOMAIN data_store
       THEN /\ resp' = NotFound("report", fid)
            /\ UNCHANGED <<outputs, uuid_calls>>
       ELSE /\ uuid_calls < MaxIds
            /\ uuid_calls' = uuid_calls + 1
            /\ IF pdf_ok
               THEN /\ outputs' = outputs \cup {<<uuid4, "pdf">>}
                    /\ resp' = [Http("report", fid, 200, "") EXCEPT
                                  !.report = uuid4, !.embedded = Embedded(vpaths),
                                  !.notes = Notes(vpaths), !.vpaths = vpaths,
                                  !.written = "ok"]
               ELSE /\ outputs' = outputs
                    /\ resp' = [Http("report", fid, 500, "Error generating report") EXCEPT
                                  !.vpaths = vpaths, !.written = "raises"]
    /\ UNCHANGED <<data_store, tasks>>

(***************************************************************************)
(* POST /api/auto-analyze                                                  *)
(***************************************************************************)
\* auto_analyze_data up to "await client.post(...)"
auto_analyze_data(t, fid) ==
    /\ Quiet
    /\ UNCHANGED figures
    /\ Free(t)
    /\ IF fid \notin DOMAIN data_store
       THEN /\ resp' = NotFound("auto", fid)
            /\ UNCHANGED tasks
       ELSE /\ tasks' = [tasks EXCEPT ![t] =
                           [IdleTask EXCEPT !.pc = "awaiting", !.op = "auto", !.fid = fid,
                                            !.df = data_store[fid].df, !.sent = Post(0)]]
            /\ resp' = NoResp
    /\ UNCHANGED <<data_store, outputs, uuid_calls>>

\* auto_analyze_data from the await to the loop over the slots
auto_analyze_data_resume(t, up, a) ==
    /\ Quiet
    /\ UNCHANGED figures
    /\ tasks[t].pc = "awaiting"
    /\ tasks[t].op = "auto"
    /\ LET me == tasks[t]
       IN IF RaisesForStatus(up)
          THEN /\ resp' = UpstreamError("auto", me, up)
               /\ tasks' = [tasks EXCEPT ![t] = IdleTask]
          ELSE IF ParseRaises(up) \/ a.shape = "number"
          THEN /\ resp' = [AnalysisFailed("auto", me, up) EXCEPT !.shape = a.shape]
               /\ tasks' = [tasks EXCEPT ![t] = IdleTask]
          ELSE /\ tasks' = [tasks EXCEPT ![t] =
                              [me EXCEPT !.pc = "slots", !.shape = a.shape, !.prep = a.prep,
                                         !.sec = a.sec,
                                         !.n = a.n, !.i = 0, !.paths = << >>,
                                         !.df = data_store[me.fid].df]]
               /\ resp' = NoResp
    /\ UNCHANGED <<data_store, outputs, uuid_calls>>

\* a plausible slip: a slot without code gets no canned code
SlotCodeNoCanned(i, s, df) == s.code

\* a plausible slip: the heatmap is substituted for one numeric column too
CannedHeatmapOneColumn(i, df) ==
    IF i = 0 /\ NumNumeric(df) > 0 THEN "histogram"
    ELSE IF i = 1 /\ NumNumeric(df) > 0 THEN "heatmap"
    ELSE "none"

\* the canned code for slot i (counted from 0) when its own is missing or
\* too short
Canned(i, df) ==
    IF i = 0 /\ NumNumeric(df) > 0 THEN "histogram"
    ELSE IF i = 1 /\ NumNumeric(df) > 1 THEN "heatmap"
    ELSE "none"

\* The code slot i runs: its own, or for a slot without code or with code
\* that is too short the canned histogram or heatmap (both canned texts
\* hold "plt"); without a canned code the slot's own code stays.
SlotCode(i, s, df) ==
    IF s.code # "none" /\ ~s.short THEN s.code
    ELSE IF Canned(i, df) # "none" THEN "plt"
    ELSE s.code

\* The try block of the loop for slot i (counted from 0), with `paths` the
\* list so far: whether it raises, how often it called uuid4 and the kind
\* of image it appended ("none": it appended nothing).
TrySlot(paths, i, s, df) ==
    LET code == SlotCode(i, s, df)
        raised(c) == [raised |-> TRUE, calls |-> c, kind |-> "none"]
        done(c, k) == [raised |-> FALSE, calls |-> c, kind |-> k]
    IN IF ~s.item THEN raised(0)
       ELSE IF code = "none" THEN done(0, "none")
       ELSE IF s.raises = "exec" THEN raised(0)
       ELSE IF code = "plt"
       THEN (IF s.raises = "save" THEN raised(1) ELSE done(1, "chart"))
       ELSE IF code = "px" \/ s.fig
       THEN (IF ~s.fig THEN done(1, "none")
             ELSE IF s.raises = "save" THEN raised(1) ELSE done(1, "chart"))
       ELSE IF paths = << >>
       THEN (IF s.raises = "save" THEN raised(1) ELSE done(1, "fallback"))
       ELSE done(1, "none")

\* a plausible slip: the error image is drawn without a try of its own
ProcessSlotUnguarded(paths, i, s, df) ==
    LET r == TrySlot(paths, i, s, df)
        id == uuid_calls + r.calls
        errid == id + 1
        tile(p, k) == [path |-> p, kind |-> k, slot |-> i]
    IN IF ~r.raised
       THEN IF r.kind = "none"
            THEN [paths |-> paths, calls |-> r.calls, files |-> {}, escapes |-> FALSE]
            ELSE [paths |-> Append(paths, tile(id, r.kind)), calls |-> r.calls,
                  files |-> {<<id, "png">>}, escapes |-> FALSE]
       ELSE IF s.errsave
            THEN [paths |-> paths, calls |-> r.calls + 1, files |-> {}, escapes |-> TRUE]
            ELSE [paths |-> Append(paths, tile(errid, "error")), calls |-> r.calls + 1,
                  files |-> {<<errid, "png">>}, escapes |-> FALSE]

\* One turn of the loop: the try block, and the except block that draws
\* the error image under a new uuid4 (errsave: that raises too, and is
\* passed over).  Gives the new list, the uuid4 calls, the files written
\* and whether an exception leaves the loop (escapes).
process_slot(paths, i, s, df) ==
    LET r == TrySlot(paths, i, s, df)
        id == uuid_calls + r.calls
        errid == id + 1
        tile(p, k) == [path |-> p, kind |-> k, slot |-> i]
    IN IF ~r.raised
       THEN IF r.kind = "none"
            THEN [paths |-> paths, calls |-> r.calls, files |-> {}, escapes |-> FALSE]
            ELSE [paths |-> Append(paths, tile(id, r.kind)), calls |-> r.calls,
                  files |-> {<<id, "png">>}, escapes |-> FALSE]
       ELSE IF s.errsave
            THEN [paths |-> paths, calls |-> r.calls + 1, files |-> {}, escapes |-> FALSE]
            ELSE [paths |-> Append(paths, tile(errid, "error")), calls |-> r.calls + 1,
                  files |-> {<<errid, "png">>}, escapes |-> FALSE]

\* The figures open after the loop's turn for slot i, f being open before:
\* the matplotlib branch ends with plt.close('all'); the last-resort chart
\* and the error image open a figure of their own and close that one with
\* plt.close(); the plotly branch closes nothing.
SlotFigures(f, paths, i, s, df) ==
    LET code == SlotCode(i, s, df)
    IN IF ~s.item \/ code = "none" THEN f
       ELSE IF code = "plt" /\ s.raises = "no" THEN 0
       ELSE f + s.figs

\* auto_analyze_data: the loop's turn for the next slot
auto_analyze_slot(t, s) ==
    /\ tasks[t].pc = "slots"
    /\ tasks[t].i < tasks[t].n
    /\ figures' = SlotFigures(figures, tasks[t].paths, tasks[t].i, s, tasks[t].df)
    /\ figures' <= MaxOpen
    /\ LET me == tasks[t]
           r == process_slot(me.paths, me.i, s, me.df)
           df == IF s.mutates THEN Mutated(me.df) ELSE me.df
           after == [me EXCEPT !.i = me.i + 1, !.paths = r.paths, !.last = s, !.df = df,
                               !.failed = (me.failed \/ TrySlot(me.paths, me.i, s, me.df).raised)]
       IN /\ uuid_calls + r.calls <= MaxIds
          /\ uuid_calls' = uuid_calls + r.calls
          /\ outputs' = outputs \cup r.files
          /\ IF r.escapes
             THEN \* the handler's own "except Exception"
                  /\ resp' = [AnalysisFailed("auto", me, Parsed) EXCEPT
                                !.shape = me.shape, !.n = me.n, !.failed = TRUE]
                  /\ tasks' = [tasks EXCEPT ![t] = IdleTask]
             ELSE /\ resp' = NoResp
                  /\ tasks' = [tasks EXCEPT ![t] = after]
          /\ data_store' = [data_store EXCEPT ![me.fid].df = df]

\* a plausible slip: the heatmap is drawn whatever the columns are
DefaultsWithHeatmap(paths, df, dflt) ==
    IF paths # << >> THEN [paths |-> paths, calls |-> 0, files |-> {}]
    ELSE IF dflt = "overview" THEN [paths |-> paths, calls |-> 1, files |-> {}]
    ELSE [paths |-> << [path |-> uuid_calls + 1, kind |-> "overview", slot |-> -1],
                       [path |-> uuid_calls + 2, kind |-> "heatmap", slot |-> -1] >>,
          calls |-> 2, files |-> {<<uuid_calls + 1, "png">>, <<uuid_calls + 2, "png">>}]

\* a plausible slip: the default images are never drawn
NoDefaultVisualizations(paths, df, dflt) == [paths |-> paths, calls |-> 0, files |-> {}]

\* "if not visualization_paths": the data overview and, with two numeric
\* columns, the correlation heatmap; dflt names the one whose drawing or
\* saving raises ("no": none), which ends the block.
default_visualizations(paths, df, dflt) ==
    LET id == uuid_calls + 1
        tile(p, k) == [path |-> p, kind |-> k, slot |-> -1]
    IN IF paths # << >> THEN [paths |-> paths, calls |-> 0, files |-> {}]
       ELSE IF dflt = "overview" THEN [paths |-> paths, calls |-> 1, files |-> {}]
       ELSE IF NumNumeric(df) <= 1
       THEN [paths |-> <<tile(id, "overview")>>, calls |-> 1, files |-> {<<id, "png">>}]
       ELSE IF dflt = "heatmap"
       THEN [paths |-> <<tile(id, "overview")>>, calls |-> 2, files |-> {<<id, "png">>}]
       ELSE [paths |-> <<tile(id, "overview"), tile(id + 1, "heatmap")>>, calls |-> 2,
             files |-> {<<id, "png">>, <<id + 1, "png">>}]

\* Writing the dashboard: "noopen" (open() raises, no file), "partial" (the
\* file is created and an expression of the template raises: .get on a
\* value that is no object, a missing key of preprocessed_data_info) or "ok".
write_dashboard(shape, prep, open_ok) ==
    IF ~open_ok THEN "noopen"
    ELSE IF shape # "object" \/ prep = "bad" THEN "partial"
    ELSE "ok"

\* a plausible slip: the template shows the first image only
DashboardFirstTile(paths) == IF paths = << >> THEN << >> ELSE <<paths[1].path>>

\* "for viz in visualization_paths": the image tiles written into the
\* Visualizations tab of the dashboard, by their img src
DashboardTiles(paths) == [k \in 1..Len(paths) |-> paths[k].path]

\* a plausible slip: the path is recorded before the dashboard is written
RecordDashboardFirst(store, fid, url, written) == [store EXCEPT ![fid].dashboard = url]

\* data_store[file_id]["dashboard"] = url, reached when the dashboard is written
record_dashboard(store, fid, url, written) ==
    IF written = "ok" THEN [store EXCEPT ![fid].dashboard = url] ELSE store

\* auto_analyze_data after the loop: default images, dashboard, response
auto_analyze_finish(t, dflt, open_ok) ==
    /\ UNCHANGED figures
    /\ tasks[t].pc = "slots"
    /\ tasks[t].i >= tasks[t].n
    /\ LET me == tasks[t]
           d == default_visualizations(me.paths, me.df, dflt)
           url == uuid_calls + d.calls + 1
           written == write_dashboard(me.shape, me.prep, open_ok)
       IN /\ uuid_calls + d.calls + 1 <= MaxIds
          /\ uuid_calls' = uuid_calls + d.calls + 1
          /\ outputs' = outputs \cup d.files
                          \cup (IF written = "noopen" THEN {} ELSE {<<url, "html">>})
          /\ data_store' = record_dashboard(data_store, me.fid, url, written)
          /\ resp' = [(IF written = "ok"
                       THEN [Http("auto", me.fid, 200, "") EXCEPT
                               !.dashboard_url = url, !.visualizations = d.paths,
                               !.tiles = DashboardTiles(d.paths),
                               !.rendered = Rendered(me.sec), !.analysis = Returned(me.sec),
                               !.sent = me.sent, !.up = Parsed]
                       ELSE AnalysisFailed("auto", me, Parsed))
                      EXCEPT !.failed = me.failed, !.shape = me.shape, !.n = me.n,
                             !.dflt = (IF me.paths = << >> THEN dflt ELSE ""),
                             !.written = written, !.prep = me.prep, !.sec = me.sec]
    /\ tasks' = [tasks EXCEPT ![t] = IdleTask]

(***************************************************************************)
(* The application.                                                        *)
(***************************************************************************)
Upload ==
    \/ \E t \in Tasks, u \in Uploads : upload_file(t, u.filename, u.content)
    \/ \E t \in Tasks : upload_file_resume(t)

Analyze ==
    \/ \E t \in Tasks, fid \in FileIds : analyze_data(t, fid)
    \/ \E t \in Tasks, up \in Failures : analyze_data_resume(t, up, NoReply)
    \/ \E t \in Tasks, a \in {r \in AnalyzeRepliesWith({0}) : ~r.mutates} :
            analyze_data_resume(t, Parsed, a)

Visualize ==
    \/ \E fid \in FileIds, req \in VizRequests : create_visualization(fid, req, TRUE)
    \/ \E fid \in FileIds : create_visualization(fid, VizRequest("bar", <<"a", 0>>, NoColumn, NoColumn), FALSE)

Report ==
    \/ \E fid \in FileIds, vpaths \in ReportPathLists : generate_report(fid, vpaths, TRUE)
    \/ \E fid \in FileIds : generate_report(fid, << >>, FALSE)

AutoAnalyze ==
    \/ \E t \in Tasks, fid \in FileIds : auto_analyze_data(t, fid)
    \/ \E t \in Tasks, up \in Failures : auto_analyze_data_resume(t, up, NoAutoReply)
    \/ \E t \in Tasks, a \in AutoReplies : auto_analyze_data_resume(t, Parsed, a)
    \/ \E t \in Tasks, s \in {r \in SlotsWith({0}) : ~r.mutates /\ ~r.short} :
            auto_analyze_slot(t, s)
    \/ \E t \in Tasks, dflt \in {"no", "overview", "heatmap"}, open_ok \in BOOLEAN :
            auto_analyze_finish(t, dflt, open_ok)

\* generated code that changes df in place, run by analyze_data
MutatingReply ==
    \E t \in Tasks, a \in {r \in AnalyzeRepliesWith({0}) : r.mutates} : analyze_data_resume(t, Parsed, a)

\* generated code that leaves matplotlib figures open, run by analyze_data
FigureReply ==
    \E t \in Tasks, a \in AnalyzeRepliesWith(1..MaxFigs) : analyze_data_resume(t, Parsed, a)

\* generated code that leaves matplotlib figures open, run by
\* auto_analyze_data
FigureSlot ==
    \E t \in Tasks, s \in SlotsWith(1..MaxFigs) : auto_analyze_slot(t, s)

\* a slot of auto_analyze_data whose code is too short
ShortSlot ==
    \E t \in Tasks, s \in {r \in SlotsWith({0}) : r.short} : auto_analyze_slot(t, s)

\* generated code that changes df in place, run by auto_analyze_data
MutatingSlot ==
    \E t \in Tasks, s \in {r \in SlotsWith({0}) : r.mutates} : auto_analyze_slot(t, s)

Next ==
    \/ Upload \/ Analyze \/ Visualize \/ Report \/ AutoAnalyze
    \/ MutatingReply \/ MutatingSlot \/ ShortSlot
    \/ FigureReply \/ FigureSlot

Spec == Init /\ [][Next]_vars

\* every handler, the requests arriving one after the other: a request is
\* answered before the next one is taken up
Serial == Cardinality({t \in Tasks : tasks[t].pc # "idle"}) <= 1

SerialNext ==
    \/ Upload /\ Serial'
    \/ Analyze /\ Serial'
    \/ Visualize /\ Serial'
    \/ Report /\ Serial'
    \/ AutoAnalyze /\ Serial'

SpecSerial == Init /\ [][SerialNext]_vars

\* every handler and generated code that changes df in place, the requests
\* arriving one after the other, up to StoreIds calls of uuid4
Short == Serial /\ uuid_calls <= StoreIds

StoreNext ==
    \/ Upload /\ Short'
    \/ Analyze /\ Short'
    \/ Visualize /\ Short'
    \/ Report /\ Short'
    \/ AutoAnalyze /\ Short'
    \/ MutatingReply /\ Short'
    \/ MutatingSlot /\ Short'

SpecStore == Init /\ [][StoreNext]_vars

\* uploads, analyze and auto-analyze requests with generated code that
\* leaves figures open, the requests arriving one after the other
FiguresNext ==
    \/ Upload /\ Short'
    \/ Analyze /\ Short'
    \/ AutoAnalyze /\ Short'
    \/ FigureReply /\ Short'
    \/ FigureSlot /\ Short'

SpecFigures == Init /\ [][FiguresNext]_vars

\* the upload handler alone, under every interleaving of its two halves
SpecUpload == Init /\ [][Upload]_vars

\* uploads and the two handlers that call the completion service
SpecCompletion == Init /\ [][Upload \/ Analyze \/ AutoAnalyze]_vars

\* uploads and auto-analyze
SpecAuto == Init /\ [][Upload \/ AutoAnalyze]_vars

\* uploads and the chart endpoint
SpecVisualize == Init /\ [][Upload \/ Visualize]_vars

\* uploads and auto-analyze requests, slots with too short code included
SpecSlots == Init /\ [][Upload \/ AutoAnalyze \/ ShortSlot]_vars

\* uploads, chart requests (the images a report can embed) and reports
SpecReport == Init /\ [][Upload \/ Visualize \/ Report]_vars

(***************************************************************************)
(* Properties.                                                             *)
(***************************************************************************)
KeyedHandlers == {"analyze", "visualize", "report", "auto"}

\* C1: analyze, visualize, generate-report and auto-analyze answer a request
\* whose file_id is no key of data_store with 404, whatever came before.
C1_UnknownFileIdIs404 ==
    (resp.op \in KeyedHandlers /\ resp.fid \notin DOMAIN data_store) => resp.status = 404

\* an unknown file_id is refused by generate-report after a dataset was stored
C1_Witness ==
    /\ resp.op = "report"
    /\ resp.fid \notin DOMAIN data_store
    /\ resp.status = 404
    /\ DOMAIN data_store # {}

\* the columns a chart request names exist in the dataset
ColumnsExist(req, df) ==
    /\ req.x \in ColumnSet(df)
    /\ req.y = NoColumn \/ req.y \in ColumnSet(df)
    /\ req.color = NoColumn \/ req.color \in ColumnSet(df)

\* line or scatter without a y column, or a type that is not supported
InvalidChart(req) ==
    \/ req.viz_type \in {"line", "scatter"} /\ req.y = NoColumn
    \/ req.viz_type \notin {"bar", "line", "scatter", "histogram", "box"}

\* C2: visualize on a known file_id with existing columns and an invalid
\* chart request is answered with a 4xx status.
C2_InvalidChartIsClientError ==
    (/\ resp.op = "visualize"
     /\ resp.fid \in DOMAIN data_store
     /\ resp.request # NoRequest
     /\ ColumnsExist(resp.request, data_store[resp.fid].df)
     /\ InvalidChart(resp.request))
        => resp.status \in 400..499

\* the positions of list v that hold a tile of slot i
TilesOf(v, i) == {k \in 1..Len(v) : v[k].slot = i}

\* C3 as stated: after a successful auto-analyze of a reply listing n slots,
\* every one of the n slots has a tile in the result.
C3_TilePerSlot ==
    (resp.op = "auto" /\ resp.status = 200 /\ resp.n >= 0)
        => \A i \in 0..(resp.n - 1) : TilesOf(resp.visualizations, i) # {}

\* Slot i of a dataset with num numeric columns runs code: its own, or the
\* canned one of the first two slots.
RunsCode(s, i, num) ==
    s.item /\ (s.code # "none" \/ (i = 0 /\ num >= 1) \/ (i = 1 /\ num >= 2))

\* the code that runs draws with matplotlib
UsesPlt(s, i, num) ==
    s.code \in {"plt", "none"} \/ (s.short /\ ((i = 0 /\ num >= 1) \/ (i = 1 /\ num >= 2)))

\* Slot i gets a tile: its code ran and its matplotlib figure or its plotly
\* fig was saved; or it ran, drew neither, and was the first to give an
\* image (first); or its processing raised and the error image was saved.
Saves(s, i, num, first) == UsesPlt(s, i, num) \/ s.fig \/ (s.code = "other" /\ first)

\* processing slot i raises: the item is malformed, its code raises, or
\* saving its image does
SlotRaises(s, i, num, first) ==
    \/ ~s.item
    \/ RunsCode(s, i, num) /\ s.raises = "exec"
    \/ RunsCode(s, i, num) /\ s.raises = "save" /\ Saves(s, i, num, first)

GetsTile(s, i, num, first) ==
    \/ SlotRaises(s, i, num, first) /\ ~s.errsave
    \/ RunsCode(s, i, num) /\ s.raises = "no" /\ Saves(s, i, num, first)

\* C3, amended: when the loop has processed a slot, the list holds at most
\* one tile for it, and holds one exactly in the cases of GetsTile; no
\* other slot's tile is of a later slot.
C3_TileWhenRenderedOrFailed ==
    \A t \in Tasks :
        (tasks[t].pc = "slots" /\ tasks[t].i > 0) =>
            LET me == tasks[t]
                i == me.i - 1
                mine == TilesOf(me.paths, i)
                first == \A k \in 1..Len(me.paths) : me.paths[k].slot = i
            IN /\ Cardinality(mine) <= 1
               /\ \A k \in 1..Len(me.paths) : me.paths[k].slot \in 0..i
               /\ mine # {} <=> GetsTile(me.last, i, NumNumeric(me.df), first)

\* the second slot ran code that drew nothing and, a tile being there
\* already, got none; the first slot had its canned histogram
C3_Witness ==
    \E t \in Tasks :
        /\ tasks[t].pc = "slots"
        /\ tasks[t].i = 2
        /\ tasks[t].last.code = "other"
        /\ ~tasks[t].last.fig
        /\ Len(tasks[t].paths) = 1
        /\ tasks[t].paths[1].kind = "chart"

\* C4 as stated: a successful auto-analyze returns a list that is not empty.
C4_VisualizationsNonEmpty ==
    (resp.op = "auto" /\ resp.status = 200) => resp.visualizations # << >>

\* C4, amended: the list of a successful auto-analyze is empty only when
\* the loop gave no image and drawing the data overview raised; when the
\* loop gave none and the overview was drawn, the list is the overview,
\* followed by the heatmap when the dataset has two numeric columns and
\* drawing the heatmap did not raise.
C4_NonEmptyUnlessOverviewRaises ==
    (resp.op = "auto" /\ resp.status = 200) =>
        LET v == resp.visualizations
            num == NumNumeric(data_store[resp.fid].df)
        IN /\ v = << >> <=> resp.dflt = "overview"
           /\ resp.dflt \in {"no", "heatmap"} =>
                /\ v[1].kind = "overview"
                /\ Len(v) = (IF num >= 2 /\ resp.dflt = "no" THEN 2 ELSE 1)
                /\ Len(v) = 2 => v[2].kind = "heatmap"

\* the loop had nothing to show and both default images were drawn
C4_Witness ==
    /\ resp.op = "auto"
    /\ resp.status = 200
    /\ Len(resp.visualizations) = 2
    /\ resp.visualizations[1].kind = "overview"
    /\ resp.visualizations[2].kind = "heatmap"

\* C5 as stated: when a slot failed and the dashboard was written, the
\* response is a success with a dashboard_url and the list holds an error
\* image or a default image.
C5_FailureGivesErrorOrDefaultImage ==
    (resp.op = "auto" /\ resp.failed /\ resp.written = "ok") =>
        /\ resp.status = 200
        /\ resp.dashboard_url # 0
        /\ \E k \in 1..Len(resp.visualizations) :
                resp.visualizations[k].kind \in {"error", "overview"}

\* C5, amended: once the reply is parsed, the request fails only when
\* writing the dashboard does, and otherwise succeeds with a
\* dashboard_url; a slot whose processing raised has an error image as its
\* only tile, or no tile at all when the error image could not be saved.
C5_SlotFailureIsNotFatal ==
    /\ (resp.op = "auto" /\ resp.up = Parsed /\ resp.shape \in {"object", "array"}) =>
            /\ resp.status # 200 => resp.written \in {"noopen", "partial"}
            /\ resp.written = "ok" => (resp.status = 200 /\ resp.dashboard_url # 0)
    /\ \A t \in Tasks :
        (tasks[t].pc = "slots" /\ tasks[t].i > 0) =>
            LET me == tasks[t]
                i == me.i - 1
                mine == TilesOf(me.paths, i)
                first == \A k \in 1..Len(me.paths) : me.paths[k].slot = i
            IN SlotRaises(me.last, i, NumNumeric(me.df), first) =>
                    /\ me.failed
                    /\ me.last.errsave => mine = {}
                    /\ \A k \in mine : me.paths[k].kind = "error"
                    /\ ~me.last.errsave => mine # {}

\* a slot's code raised, its error image could not be saved either, and the
\* request succeeded with another slot's chart
C5_Witness ==
    /\ resp.op = "auto"
    /\ resp.status = 200
    /\ resp.failed
    /\ resp.dashboard_url # 0
    /\ resp.visualizations # << >>
    /\ \A k \in 1..Len(resp.visualizations) : resp.visualizations[k].kind = "chart"

CompletionHandlers == {"analyze", "auto"}

\* C6: when the completion service answers with a status s outside 2xx,
\* analyze and auto-analyze respond with status s, marked as an upstream
\* error and carrying the upstream body, and not with the generic failure.
C6_UpstreamStatusPassedOn ==
    (/\ resp.op \in CompletionHandlers
     /\ resp.up.kind = "http"
     /\ resp.up.status \notin 200..299) =>
        /\ resp.status = resp.up.status
        /\ resp.body = resp.up.body
        /\ resp.detail = "Error from OpenRouter API"

\* auto-analyze passed on a 500 of the service with its body: the status is
\* that of the generic failure, the detail is not
C6_Witness ==
    /\ resp.op = "auto"
    /\ resp.up.kind = "http"
    /\ resp.up.status = 500
    /\ resp.status = 500
    /\ resp.body = "overloaded"
    /\ resp.detail # "Error analyzing data"

\* the completion call of response r failed otherwise than by its status:
\* no answer, an answer that is not JSON or lacks the message content,
\* content that is not JSON, or content that is JSON and no object
OtherFailure(r) ==
    \/ r.up.kind = "neterr"
    \/ r.up.kind = "http" /\ r.up.status = 200 /\ r.up.body \in {"notjson", "nochoices", "badcontent"}
    \/ r.up = Parsed /\ r.shape \in {"array", "number"}

\* C7: a completion call that fails otherwise than by a non-2xx status
\* makes analyze and auto-analyze respond 500; a step that answers 500
\* leaves the store as it was, and a step of the two handlers that answers
\* and changes the store answers 200 to a reply that was parsed.
C7_OtherFailureIs500StoreUnchanged ==
    [][ resp'.op \in CompletionHandlers =>
            /\ OtherFailure(resp') =>
                    (resp'.status = 500 /\ resp'.detail = "Error analyzing data")
            /\ resp'.status = 500 => data_store' = data_store
            /\ data_store' # data_store =>
                    (resp'.status = 200 /\ ~OtherFailure(resp') /\ resp'.up = Parsed)
      ]_vars

\* the content parsed as a JSON list: the loop was skipped, the template
\* raised while the dashboard file was written, no dashboard is recorded
C7_Witness ==
    /\ resp.op = "auto"
    /\ resp.status = 500
    /\ resp.up = Parsed
    /\ resp.shape = "array"
    /\ resp.written = "partial"
    /\ data_store[resp.fid].dashboard = 0

\* C8: a handler that called the completion service has sent one request,
\* whatever came back; a response to a known file_id reports one request
\* sent, a response to an unknown one none.
C8_OneCompletionRequest ==
    /\ \A t \in Tasks :
        /\ tasks[t].sent <= 1
        /\ tasks[t].pc \in {"awaiting", "slots"} => tasks[t].sent = 1
    /\ resp.op \in CompletionHandlers =>
            resp.sent = (IF resp.fid \in DOMAIN data_store THEN 1 ELSE 0)

\* analyze failed on a network error after its one request
C8_Witness ==
    /\ resp.op = "analyze"
    /\ resp.up.kind = "neterr"
    /\ resp.status = 500
    /\ resp.sent = 1

UpperOrLower == {"csv", "CSV", "xlsx", "XLSX", "xls", "XLS"}

\* what follows the last dot of fn (all of fn when it has none) is not csv,
\* xlsx or xls in either case
BadExtension(fn) ==
    \/ fn = << >>
    \/ fn[Len(fn)] \notin UpperOrLower
    \/ Len(fn) > 1 /\ fn[Len(fn) - 1] # "DOT"

\* C9: an upload whose extension is not csv, xlsx or xls is answered 400
\* at once: the store is unchanged and no handler is left to add an entry.
C9_BadExtensionRejected ==
    [][ (resp'.op = "upload" /\ BadExtension(resp'.filename)) =>
            /\ resp'.status = 400
            /\ data_store' = data_store
            /\ tasks' = tasks
      ]_vars

\* data.csv.txt is rejected while the store holds a dataset
C9_Witness ==
    /\ resp.op = "upload"
    /\ resp.filename = <<"data", "DOT", "csv", "DOT", "txt">>
    /\ resp.status = 400
    /\ DOMAIN data_store # {}

\* C10: a successful upload returns a file_id that was no key of the store
\* and that no upload still running holds; the step adds that one entry
\* and changes no other; the entry carries the filename of the upload that
\* ends and one column per header cell, in the order of the header.
C10_FreshFileIdOwnEntry ==
    [][ (resp'.op = "upload" /\ resp'.status = 200) =>
            LET id == resp'.file_id
            IN /\ id \notin DOMAIN data_store
               /\ id \in 1..uuid_calls
               /\ DOMAIN data_store' = (DOMAIN data_store) \cup {id}
               /\ \A k \in DOMAIN data_store : data_store'[k] = data_store[k]
               /\ \A t \in Tasks : tasks'[t].pc = "reading" => tasks'[t].fid # id
               /\ \E t \in Tasks :
                    /\ tasks[t].pc = "reading"
                    /\ tasks'[t].pc = "idle"
                    /\ tasks[t].fid = id
                    /\ data_store'[id].filename = tasks[t].filename
                    /\ resp'.filename = tasks[t].filename
                    /\ resp'.columns = data_store'[id].columns
                    /\ Len(resp'.columns) = Len(tasks[t].content.header)
                    /\ \A i \in 1..Len(resp'.columns) :
                            resp'.columns[i][1] = tasks[t].content.header[i]
      ]_vars

\* an upload succeeds while another one, started before it ended, is
\* still reading its file
C10_Witness ==
    /\ resp.op = "upload"
    /\ resp.status = 200
    /\ resp.file_id \in DOMAIN data_store
    /\ \E t \in Tasks : tasks[t].pc = "reading" /\ tasks[t].fid < resp.file_id

\* C11: an entry of the store stays: every step keeps every key with its
\* filename and its list of columns, and the table the entry refers to is
\* never taken away; so a request of a keyed handler that names a stored
\* file_id is not answered with the unknown-file 404.
C11_StoredIdStays ==
    /\ [][ \A k \in DOMAIN data_store :
                /\ k \in DOMAIN data_store'
                /\ data_store'[k].filename = data_store[k].filename
                /\ data_store'[k].columns = data_store[k].columns
                /\ \A i \in 1..Len(data_store[k].df) :
                        /\ i <= Len(data_store'[k].df)
                        /\ data_store'[k].df[i] = data_store[k].df[i]
         ]_vars
    /\ [](resp.op \in KeyedHandlers /\ resp.fid \in DOMAIN data_store => resp.status # 404)

\* a chart is drawn from a dataset after generated code added a column to
\* its table
C11_Witness ==
    /\ resp.op = "visualize"
    /\ resp.status = 200
    /\ Len(data_store[resp.fid].df) > Len(data_store[resp.fid].columns)

\* C12: a successful auto-analyze wrote into the dashboard one tile per
\* entry of the list it returns, in the order of the list, and every path
\* of the list is an image file of the output directory.
C12_TilesAreTheListAndExist ==
    (resp.op = "auto" /\ resp.status = 200) =>
        /\ Len(resp.tiles) = Len(resp.visualizations)
        /\ \A k \in 1..Len(resp.visualizations) :
                /\ resp.tiles[k] = resp.visualizations[k].path
                /\ <<resp.visualizations[k].path, "png">> \in outputs
        /\ <<resp.dashboard_url, "html">> \in outputs

\* a dashboard of two tiles, the second an error image
C12_Witness ==
    /\ resp.op = "auto"
    /\ resp.status = 200
    /\ Len(resp.tiles) = 2
    /\ resp.visualizations[2].kind = "error"

\* C13: when the reply is an object with none of the expected keys and the
\* dashboard file can be opened, auto-analyze succeeds: every section of
\* the dashboard shows its placeholder and the five returned fields are the
\* empty default.
C13_MissingKeysGivePlaceholders ==
    (/\ resp.op = "auto"
     /\ resp.up = Parsed
     /\ resp.shape = "object"
     /\ resp.n = -1
     /\ resp.prep = "absent"
     /\ resp.sec = "absent"
     /\ resp.written # "noopen") =>
        /\ resp.status = 200
        /\ resp.dashboard_url # 0
        /\ DOMAIN resp.rendered = SectionKeys
        /\ \A k \in SectionKeys : resp.rendered[k] = [as |-> "text", text |-> Placeholder(k)]
        /\ \A k \in ReturnedKeys : resp.analysis[k] = [type |-> "str", text |-> ""]

\* a reply {} for a dataset: the dashboard of placeholders, shown with the
\* default overview
C13_Witness ==
    /\ resp.op = "auto"
    /\ resp.status = 200
    /\ resp.sec = "absent"
    /\ resp.n = -1
    /\ resp.rendered["patterns"].text = "No patterns identified"
    /\ resp.visualizations # << >>

\* the dataset has no numeric column
NoNumericColumn(df) == \A i \in 1..Len(df) : ~df[i].numeric

\* C14 as stated: for a dataset without numeric columns, auto-analyze with
\* a parsed reply succeeds and returns at least one visualization.
C14_NoNumericColumnsStillVisualized ==
    (/\ resp.op = "auto"
     /\ resp.up = Parsed
     /\ resp.fid \in DOMAIN data_store
     /\ NoNumericColumn(data_store[resp.fid].df)) =>
        (resp.status = 200 /\ resp.visualizations # << >>)

\* C14, amended: for a dataset without numeric columns and a reply that is
\* an object without a malformed preprocessed_data_info, auto-analyze
\* succeeds when the dashboard file can be opened; its list is empty
\* exactly when the loop gave no image and drawing the data overview
\* raised, and when the loop gave no image and the overview was drawn the
\* list is the overview alone.
C14_NoNumericColumnsUnlessOverviewRaises ==
    (/\ resp.op = "auto"
     /\ resp.up = Parsed
     /\ resp.fid \in DOMAIN data_store
     /\ NoNumericColumn(data_store[resp.fid].df)
     /\ resp.shape = "object"
     /\ resp.prep = "absent"
     /\ resp.written # "noopen") =>
        /\ resp.status = 200
        /\ resp.visualizations = << >> <=> resp.dflt = "overview"
        /\ resp.dflt \in {"no", "heatmap"} =>
                /\ Len(resp.visualizations) = 1
                /\ resp.visualizations[1].kind = "overview"
        /\ \A k \in 1..Len(resp.visualizations) :
                resp.visualizations[k].kind \in {"chart", "fallback", "error", "overview"}

\* a dataset of one text column: the first slot's code drew with neither
\* library and the bar chart of the column's values was recorded for it
C14_Witness ==
    /\ resp.op = "auto"
    /\ resp.status = 200
    /\ NoNumericColumn(data_store[resp.fid].df)
    /\ resp.visualizations # << >>
    /\ resp.visualizations[1].kind = "fallback"

\* the fields of a chart request in the order x_column, y_column, color_by
RequestColumns(req) == <<req.x, req.y, req.color>>

\* field k of the request names a column the dataset does not have (x_column
\* is required, the other two count when supplied)
MissingColumn(req, k, df) ==
    /\ RequestColumns(req)[k] \notin ColumnSet(df)
    /\ k > 1 => RequestColumns(req)[k] # NoColumn

\* C15: a chart request on a stored dataset whose x_column, supplied
\* y_column or supplied color_by is not a column of the dataset is answered
\* 400 naming the first missing one in the order x, y, color, and no output
\* file is created (no identifier is drawn either).
C15_MissingColumnIs400 ==
    [][ (/\ resp'.op = "visualize"
         /\ resp'.fid \in DOMAIN data_store
         /\ \E k \in 1..3 : MissingColumn(resp'.request, k, data_store[resp'.fid].df)) =>
            /\ resp'.status = 400
            /\ \E k \in 1..3 :
                  /\ MissingColumn(resp'.request, k, data_store[resp'.fid].df)
                  /\ \A j \in 1..(k - 1) : ~MissingColumn(resp'.request, j, data_store[resp'.fid].df)
                  /\ resp'.column = RequestColumns(resp'.request)[k]
            /\ outputs' = outputs
            /\ uuid_calls' = uuid_calls
      ]_vars

\* x_column exists, y_column and color_by do not: y_column is the one named
C15_Witness ==
    /\ resp.op = "visualize"
    /\ resp.status = 400
    /\ resp.request.x \in ColumnSet(data_store[resp.fid].df)
    /\ MissingColumn(resp.request, 2, data_store[resp.fid].df)
    /\ MissingColumn(resp.request, 3, data_store[resp.fid].df)
    /\ resp.column = resp.request.y
    /\ resp.column # resp.request.color

\* C16: a report request on a stored dataset is answered with the path of
\* a PDF that was written, whatever its visualization_paths holds, as long
\* as writing the PDF itself does not raise: the PDF embeds, in the order
\* of the request, the paths that are image files; a path that names no
\* file leaves nothing; a file that cannot be embedded leaves a note and
\* the paths after it are still embedded; with an empty list the PDF holds
\* text only.
C16_ReportWhateverThePaths ==
    [][ (/\ resp'.op = "report"
         /\ resp'.fid \in DOMAIN data_store
         /\ resp'.written # "raises") =>
            /\ resp'.status = 200
            /\ <<resp'.report, "pdf">> \in outputs' \ outputs
            /\ \A p \in ReportPaths :
                  LET asked == SelectSeq(resp'.vpaths, LAMBDA q : q = p)
                  IN /\ SelectSeq(resp'.embedded, LAMBDA q : q = p) =
                            (IF p \in outputs /\ p[2] = "png" THEN asked ELSE << >>)
                     /\ SelectSeq(resp'.notes, LAMBDA q : q = p) =
                            (IF p \in outputs /\ p[2] # "png" THEN asked ELSE << >>)
            /\ Len(resp'.embedded) + Len(resp'.notes) <= Len(resp'.vpaths)
            /\ resp'.vpaths = << >> => (resp'.embedded = << >> /\ resp'.notes = << >>)
      ]_vars

\* a report asked to embed an earlier report (not an image) and then a
\* chart: the first leaves a note, the chart is embedded
C16_Witness ==
    /\ resp.op = "report"
    /\ resp.status = 200
    /\ Len(resp.vpaths) = 2
    /\ resp.notes = <<resp.vpaths[1]>>
    /\ resp.embedded = <<resp.vpaths[2]>>

\* the loop's turn for slot i of task t has just been taken
SlotTurn(t) ==
    /\ tasks[t].pc = "slots"
    /\ tasks'[t].pc = "slots"
    /\ tasks'[t].i = tasks[t].i + 1

\* slot s ran code that did not raise and neither branch saved an image:
\* the code does not hold "plt", and it left no `fig`
RanWithoutImage(i, s, df) ==
    /\ s.item
    /\ SlotCode(i, s, df) \in {"px", "other"}
    /\ ~s.fig
    /\ s.raises = "no"

\* C17 as stated: when a slot's code runs without raising, neither the
\* matplotlib nor the plotly branch saves an image and no visualization is
\* recorded yet, the last-resort chart is recorded for the slot.
C17_LastResortChart ==
    [][ \A t \in Tasks :
          (/\ SlotTurn(t)
           /\ tasks[t].paths = << >>
           /\ RanWithoutImage(tasks[t].i, tasks'[t].last, tasks[t].df)) =>
              /\ Len(tasks'[t].paths) = 1
              /\ tasks'[t].paths[1].kind = "fallback"
              /\ tasks'[t].paths[1].slot = tasks[t].i
              /\ <<tasks'[t].paths[1].path, "png">> \in outputs'
      ]_vars

\* GET /temp/outputs/{filename}: the status of the answer
get_output_file(id, ext) == IF <<id, ext>> \in outputs THEN 200 ELSE 404

\* C18 as stated: a visualization path returned by analyze names a file
\* that was written, so that a GET of it is served; when saving the image
\* fails the returned visualization is null.
C18_ReturnedImageExists ==
    (/\ resp.op = "analyze"
     /\ resp.status = 200
     /\ resp.visualization # 0) =>
        get_output_file(resp.visualization, "png") = 200

\* the slot has no usable code: "code" is absent or empty, or has fewer
\* than 10 characters after trimming
LacksCode(s) == s.item /\ (s.code = "none" \/ s.short)

\* the turn of task t appended one tile of kind k for its slot, under a
\* fresh identifier, and wrote its file
AppendedTile(t, k) ==
    /\ Len(tasks'[t].paths) = Len(tasks[t].paths) + 1
    /\ SubSeq(tasks'[t].paths, 1, Len(tasks[t].paths)) = tasks[t].paths
    /\ LET new == tasks'[t].paths[Len(tasks'[t].paths)]
       IN /\ new.kind = k
          /\ new.slot = tasks[t].i
          /\ new.path > uuid_calls
          /\ <<new.path, "png">> \in outputs' \ outputs

\* the turn of task t executed nothing and recorded nothing
NothingDone(t) ==
    /\ tasks'[t].paths = tasks[t].paths
    /\ uuid_calls' = uuid_calls
    /\ outputs' = outputs

\* C19 as stated: a slot without usable code gets the canned histogram as
\* the first slot of a dataset with a numeric column, the canned heatmap as
\* the second slot of a dataset with two numeric columns, and otherwise
\* nothing is executed and nothing recorded for it.
C19_CannedOrNothing ==
    [][ \A t \in Tasks :
          (SlotTurn(t) /\ LacksCode(tasks'[t].last)) =>
              LET i == tasks[t].i
                  num == NumNumeric(tasks[t].df)
              IN IF (i = 0 /\ num >= 1) \/ (i = 1 /\ num >= 2)
                 THEN AppendedTile(t, "chart")
                 ELSE NothingDone(t)
      ]_vars

\* C19, amended: the substitution is as stated; without a substitute a
\* slot whose code is absent or empty executes and records nothing, while a
\* slot whose code is too short executes that code as it is: code holding
\* "plt" gets its figure saved as the slot's tile, other code gets the
\* last-resort chart when the list is still empty and otherwise only draws
\* an identifier.
C19_CannedOrOwnShortCode ==
    [][ \A t \in Tasks :
          (SlotTurn(t) /\ LacksCode(tasks'[t].last)) =>
              LET i == tasks[t].i
                  num == NumNumeric(tasks[t].df)
                  s == tasks'[t].last
              IN IF (i = 0 /\ num >= 1) \/ (i = 1 /\ num >= 2)
                 THEN AppendedTile(t, "chart")
                 ELSE IF ~s.short THEN NothingDone(t)
                 ELSE IF s.code = "plt" THEN AppendedTile(t, "chart")
                 ELSE IF tasks[t].paths = << >> THEN AppendedTile(t, "fallback")
                 ELSE /\ tasks'[t].paths = tasks[t].paths
                      /\ uuid_calls' = uuid_calls + 1
                      /\ outputs' = outputs
      ]_vars

\* the second slot of a dataset with two numeric columns had no code and
\* got the canned heatmap, after the tile of the first slot
C19_Witness ==
    \E t \in Tasks :
        /\ tasks[t].pc = "slots"
        /\ tasks[t].i = 2
        /\ tasks[t].last.code = "none"
        /\ tasks[t].last.item
        /\ NumNumeric(tasks[t].df) = 2
        /\ Len(tasks[t].paths) = 2
        /\ tasks[t].paths[1].kind = "chart"
        /\ tasks[t].paths[2].kind = "chart"
        /\ tasks[t].paths[2].slot = 1

\* the step stores a newly uploaded dataset and leaves the others alone
StoresUpload ==
    /\ resp'.op = "upload"
    /\ resp'.status = 200
    /\ resp'.file_id \notin DOMAIN data_store
    /\ DOMAIN data_store' = DOMAIN data_store \cup {resp'.file_id}
    /\ \A k \in DOMAIN data_store : data_store'[k] = data_store[k]

\* the step is the end of a successful auto-analyze and changes nothing
\* but the dashboard of its dataset, which becomes the returned URL
SetsDashboard ==
    /\ resp'.op = "auto"
    /\ resp'.status = 200
    /\ resp'.fid \in DOMAIN data_store
    /\ data_store' = [data_store EXCEPT ![resp'.fid].dashboard = resp'.dashboard_url]

\* C20 as stated: the store changes only when an upload adds its dataset
\* and when a successful auto-analyze sets the dashboard of its dataset to
\* the URL it returns; no step of analyze, visualize, generate-report or
\* auto-analyze changes a stored table, its columns or its filename.
C20_StoreChangesOnlyByDashboard ==
    [][ data_store' # data_store => (StoresUpload \/ SetsDashboard) ]_vars

\* C21 as stated: when the turn of a slot has ended and when an analyze or
\* auto-analyze request has completed, no figure that generated code opened
\* is still open.
C21_NoFigureLeftOpen == figures = 0

====
